---- MODULE Spec2Model ----
(***************************************************************************)
(* Bar-by-bar simulation engine of the MT5 expert advisor: the loops of    *)
(* run_backtest (backtest.py) and run_single_backtest                      *)
(* (dynamic_backtest.py), the RegimeMomentumStrategy signals               *)
(* (trading_strategy.py) they consult and the RiskManager they call.       *)
(*                                                                         *)
(* Prices are integers counted in points (one point = one price           *)
(* increment), so "/ point" and "* point" are exact.  The indicator        *)
(* columns pandas_ta appends (EMA, ADX, STOCHk) are inputs: row j of a     *)
(* column computed on df[:n] is a function of rows 0..j only, and the      *)
(* model carries that value in row j of df.                                *)
(*                                                                         *)
(* Spec is the simulation loop.  SpecSignal, SpecRisk and SpecReport call  *)
(* the strategy's signals, the RiskManager of src/risk_manager.py and the  *)
(* report on arguments of their own.                                       *)
(***************************************************************************)
EXTENDS Integers, Sequences, FiniteSets, TLC

VARIABLES
    engine,            \* which loop runs: "run_backtest" | "run_single_backtest"
    risk_manager_api,  \* the RiskManager the process imports (see Construct)
    df,                \* the bar series, materialised before the loop
    pc,                \* "init" | "exit" | "entry" | "report" | "done" | "crashed"
    i,                 \* the loop index
    current_trade,     \* the open position, or NoTrade
    completed_trades,  \* the trade ledger
    opened,            \* history: how many position dicts the loop has created
    call,              \* a function called on its own: its name and arguments
    result,            \* what that call returned, or Pending
    rm,                \* the RiskManager object of src/risk_manager.py, once built
    live               \* the live program main.run: connection, symbol tables, cycle

sim_vars == <<engine, risk_manager_api, df, pc, i, current_trade, completed_trades, opened>>
fn_vars == <<call, result, rm, live>>
vars == <<engine, risk_manager_api, df, pc, i, current_trade, completed_trades, opened,
          call, result, rm, live>>

----------------------------------------------------------------------------
(* Bounds of the model *)

MaxBars == 7           \* len(df)

\* strategy periods (scaled down; they only set min_bars)
fast_ema_period == 1
slow_ema_period == 2
adx_period == 1
stoch_k == 1

\* risk parameters (scaled down)
stop_loss_pips == 2
RatioNum == 3          \* risk_reward_ratio = RatioNum / RatioDen
RatioDen == 2
stops_level == 0

MaxDecimals == 8       \* the price increments are 10^-k, k = 0 .. MaxDecimals
MaxAttempts == 2       \* entry attempts made with one RiskManager
MaxTrades == 3         \* len(completed_trades) when the report is made on its own

(* Program constants *)
adx_threshold == 25
stoch_oversold == 20
stoch_overbought == 80

\* float('nan') in an indicator column, and Python's None where a price is expected
NaN == -1
None == -2

NoTrade == [type |-> "None"]

\* no call under way, no RiskManager built (the simulation loop on its own)
NoCall == [fn |-> "none"]
NoResult == [status |-> "none"]
NoRM == [status |-> "none"]
NoLive == [status |-> "none"]

----------------------------------------------------------------------------
(* Python helpers *)

Max2(a, b) == IF a >= b THEN a ELSE b

\* truthiness of a price-or-None (None and 0.0 are falsy)
Truthy(x) == x # None /\ x # 0

\* truthiness of current_trade (None is falsy, a non-empty dict is truthy)
TradeOpen(t) == t # NoTrade

\* float comparisons: every comparison with NaN is False
IsNa(x) == x = NaN
\* variant: "greater than" also holds of equal values
Gt_inclusive(a, b) == ~IsNa(a) /\ ~IsNa(b) /\ a >= b

Gt(a, b) == ~IsNa(a) /\ ~IsNa(b) /\ a > b
Lt(a, b) == ~IsNa(a) /\ ~IsNa(b) /\ a < b
\* variant: "greater or equal" fails on equal values
Ge_strict(a, b) == ~IsNa(a) /\ ~IsNa(b) /\ a > b

Ge(a, b) == ~IsNa(a) /\ ~IsNa(b) /\ a >= b
\* variant: an undefined value compares like the number that stands for it
Le_plain(a, b) == a <= b

Le(a, b) == ~IsNa(a) /\ ~IsNa(b) /\ a <= b

\* round(num/den) to the nearest integer, ties to even (Python's round)
Round(num, den) ==
    LET q == num \div den
        r == num % den
    IN  IF 2 * r < den THEN q
        ELSE IF 2 * r > den THEN q + 1
        ELSE IF q % 2 = 0 THEN q ELSE q + 1

\* df.iloc[k] for k >= 0 and df.iloc[-k] for k < 0 (Python indexes from 0)
iloc(d, k) == IF k >= 0 THEN d[k + 1] ELSE d[Len(d) + k + 1]

\* df.iloc[:n]
iloc_upto(d, n) == SubSeq(d, 1, IF n <= Len(d) THEN n ELSE Len(d))

\* None where a DataFrame is expected ("historical_data is None")
NoData ==
    <<[time |-> None, low |-> None, high |-> None, close |-> None,
       EMA_fast |-> None, EMA_slow |-> None, ADX |-> None, STOCHk |-> None]>>

\* str.upper() on the direction words
upper(s) ==
    CASE s = "buy" -> "BUY"
      [] s = "sell" -> "SELL"
      [] s = "hold" -> "HOLD"
      [] OTHER -> s

----------------------------------------------------------------------------
(* RegimeMomentumStrategy *)

min_bars == Max2(Max2(fast_ema_period, slow_ema_period), Max2(adx_period, stoch_k))

\* variant: the final row of the data is taken to be the last completed candle
last_row_final(historical_data) == iloc(historical_data, -1)

\* "the last two completed candles": the final row of the data is taken to be
\* the candle still forming
last_row(historical_data) == iloc(historical_data, -2)
prev_row(historical_data) == iloc(historical_data, -3)

\* variant: the three rows the crossing test needs are not asked for
not_enough_data_min_bars(historical_data) ==
    historical_data = NoData \/ Len(historical_data) < min_bars

\* "historical_data is None or len(historical_data) < self.min_bars + 3"
not_enough_data(historical_data) ==
    historical_data = NoData \/ Len(historical_data) < min_bars + 3

\* self = [adx_threshold |-> ...], the strategy object of one run
strategy_get_entry_signal(self, historical_data) ==
    IF not_enough_data(historical_data) THEN "HOLD"
    ELSE
      LET last == last_row(historical_data)
          prev == prev_row(historical_data)
      IN  IF IsNa(last.ADX) \/ IsNa(last.STOCHk) \/ IsNa(last.EMA_slow) THEN "HOLD"
          ELSE
            LET is_trending == Gt(last.ADX, self.adx_threshold)
                is_uptrend == Gt(last.EMA_fast, last.EMA_slow)
                is_downtrend == Lt(last.EMA_fast, last.EMA_slow)
                stoch_crossed_up ==
                    Gt(last.STOCHk, stoch_oversold) /\ Le(prev.STOCHk, stoch_oversold)
                stoch_crossed_down ==
                    Lt(last.STOCHk, stoch_overbought) /\ Ge(prev.STOCHk, stoch_overbought)
            IN  IF is_trending /\ is_uptrend /\ stoch_crossed_up THEN "BUY"
                ELSE IF is_trending /\ is_downtrend /\ stoch_crossed_down THEN "SELL"
                ELSE "HOLD"

\* the strategy of the single backtest, built from the configured threshold
get_entry_signal(historical_data) ==
    strategy_get_entry_signal([adx_threshold |-> adx_threshold], historical_data)

get_exit_signal(historical_data, position_type) ==
    IF not_enough_data(historical_data) THEN FALSE
    ELSE
      LET last == last_row(historical_data)
          prev == prev_row(historical_data)
      IN  IF IsNa(last.EMA_slow) \/ IsNa(prev.EMA_slow) THEN FALSE
          ELSE IF upper(position_type) = "BUY"
               THEN Lt(last.EMA_fast, last.EMA_slow) /\ Ge(prev.EMA_fast, prev.EMA_slow)
          ELSE IF upper(position_type) = "SELL"
               THEN Gt(last.EMA_fast, last.EMA_slow) /\ Le(prev.EMA_fast, prev.EMA_slow)
          ELSE FALSE

----------------------------------------------------------------------------
(* RiskManager as its callers use it: five constructor arguments,           *)
(* calculate_sl_tp(order_type, current_ask, current_bid) returning          *)
(* (stop, target, effective stop distance).  src/risk_manager.py holds the  *)
(* four-argument class; this one is modelled from the specification.        *)

\* self = [stop_loss_pips |-> ..., risk_reward_ratio |-> ...], the ratio as a
\* numerator over RatioDen
risk_manager_calculate_sl_tp(self, order_type, current_ask, current_bid) ==
    LET spread_pips == current_ask - current_bid
        required == spread_pips + stops_level
        sl_pips == Max2(self.stop_loss_pips, required)
    IN  IF order_type = "BUY"
        THEN <<current_ask - sl_pips,
               Round(current_ask * RatioDen + sl_pips * self.risk_reward_ratio, RatioDen),
               sl_pips>>
        ELSE IF order_type = "SELL"
        THEN <<current_bid + sl_pips,
               Round(current_bid * RatioDen - sl_pips * self.risk_reward_ratio, RatioDen),
               sl_pips>>
        ELSE <<None, None, None>>

\* the risk manager of the single backtest, built from the configured values
calculate_sl_tp(order_type, current_ask, current_bid) ==
    risk_manager_calculate_sl_tp(
        [stop_loss_pips |-> stop_loss_pips, risk_reward_ratio |-> RatioNum],
        order_type, current_ask, current_bid)

----------------------------------------------------------------------------
(* The bar series *)

\* (low, high, close) of a bar, in points
Candles ==
    { [low |-> 10, high |-> 10, close |-> 10],
      [low |-> 7,  high |-> 13, close |-> 10],
      [low |-> 7,  high |-> 10, close |-> 8],
      [low |-> 10, high |-> 13, close |-> 12] }

\* indicator values of a bar once the indicators have warmed up
Indicators ==
    [EMA_fast : {1, 3}, EMA_slow : {2}, ADX : {30}, STOCHk : {10, 90}]

WarmupCandle == [low |-> 10, high |-> 10, close |-> 10]
WarmupIndicators == [EMA_fast |-> NaN, EMA_slow |-> NaN, ADX |-> NaN, STOCHk |-> NaN]

Row(t, c, n) ==
    [time |-> t, low |-> c.low, high |-> c.high, close |-> c.close,
     EMA_fast |-> n.EMA_fast, EMA_slow |-> n.EMA_slow, ADX |-> n.ADX, STOCHk |-> n.STOCHk]

\* df[df['time'] >= start_date].index[0]: the loop starts one bar before the
\* strategy has min_bars + 3 rows
sim_start_index == min_bars + 1

\* rows whose indicator values a signal can read (last, prev of a slice of at
\* least min_bars + 3 rows that is not the final row), rows the loop visits
IndicatorRows == (min_bars .. MaxBars - 2)
CandleRows == (sim_start_index + 1 .. MaxBars - 1)

BarSeries ==
    { [j \in 1 .. MaxBars |->
          Row(j - 1,
              IF (j - 1) \in CandleRows THEN c[j - 1] ELSE WarmupCandle,
              IF (j - 1) \in IndicatorRows THEN n[j - 1] ELSE WarmupIndicators)] :
      c \in [CandleRows -> Candles], n \in [IndicatorRows -> Indicators] }

----------------------------------------------------------------------------
(* The simulation loop, one bar: exits first, then the entry *)

strategy_exit_comment(eng) ==
    IF eng = "run_backtest" THEN "Strategy Exit (EMA Cross)" ELSE "Strategy Exit"

\* variant: the strategy is handed the whole series
historical_slice_all(d, k) == d

historical_slice(d, k) == iloc_upto(d, k + 1)

\* variant: a stop is filled at the bar's extreme, beyond the level
check_sl_tp_at_extreme(trade, current_candle) ==
    IF trade.type = "BUY" THEN
        IF current_candle.low <= trade.sl
        THEN [exit_price |-> current_candle.low, comment |-> "SL Hit"]
        ELSE IF current_candle.high >= trade.tp
        THEN [exit_price |-> trade.tp, comment |-> "TP Hit"]
        ELSE [exit_price |-> None, comment |-> ""]
    ELSE IF trade.type = "SELL" THEN
        IF current_candle.high >= trade.sl
        THEN [exit_price |-> current_candle.high, comment |-> "SL Hit"]
        ELSE IF current_candle.low <= trade.tp
        THEN [exit_price |-> trade.tp, comment |-> "TP Hit"]
        ELSE [exit_price |-> None, comment |-> ""]
    ELSE [exit_price |-> None, comment |-> ""]

\* variant: the target is tested before the stop
check_tp_sl(trade, current_candle) ==
    IF trade.type = "BUY" THEN
        IF current_candle.high >= trade.tp
        THEN [exit_price |-> trade.tp, comment |-> "TP Hit"]
        ELSE IF current_candle.low <= trade.sl
        THEN [exit_price |-> trade.sl, comment |-> "SL Hit"]
        ELSE [exit_price |-> None, comment |-> ""]
    ELSE IF trade.type = "SELL" THEN
        IF current_candle.low <= trade.tp
        THEN [exit_price |-> trade.tp, comment |-> "TP Hit"]
        ELSE IF current_candle.high >= trade.sl
        THEN [exit_price |-> trade.sl, comment |-> "SL Hit"]
        ELSE [exit_price |-> None, comment |-> ""]
    ELSE [exit_price |-> None, comment |-> ""]

\* 4a: stop-loss / take-profit touch on the bar's low and high
check_sl_tp(trade, current_candle) ==
    IF trade.type = "BUY" THEN
        IF current_candle.low <= trade.sl
        THEN [exit_price |-> trade.sl, comment |-> "SL Hit"]
        ELSE IF current_candle.high >= trade.tp
        THEN [exit_price |-> trade.tp, comment |-> "TP Hit"]
        ELSE [exit_price |-> None, comment |-> ""]
    ELSE IF trade.type = "SELL" THEN
        IF current_candle.high >= trade.sl
        THEN [exit_price |-> trade.sl, comment |-> "SL Hit"]
        ELSE IF current_candle.low <= trade.tp
        THEN [exit_price |-> trade.tp, comment |-> "TP Hit"]
        ELSE [exit_price |-> None, comment |-> ""]
    ELSE [exit_price |-> None, comment |-> ""]

\* variant: the strategy exit is asked on every bar and overrides a stop/target hit
check_strategy_exit_always(eng, d, k, trade, hit) ==
    IF get_exit_signal(iloc_upto(d, k + 1), trade.type)
    THEN [exit_price |-> iloc(d, k).close, comment |-> strategy_exit_comment(eng)]
    ELSE hit

\* 4b: the protective strategy exit, asked only when 4a set no exit price
check_strategy_exit(eng, d, k, trade, hit) ==
    IF ~Truthy(hit.exit_price) /\ get_exit_signal(historical_slice(d, k), trade.type)
    THEN [exit_price |-> iloc(d, k).close, comment |-> strategy_exit_comment(eng)]
    ELSE hit

\* variant: the direction of the trade is ignored
pnl_pips_long_only(trade, exit_price) == exit_price - trade.entry_price

pnl_pips(trade, exit_price) ==
    IF trade.type = "BUY" THEN exit_price - trade.entry_price
    ELSE trade.entry_price - exit_price

\* current_trade.update({...})
closed_trade(trade, exit, current_candle) ==
    [id |-> trade.id, type |-> trade.type, entry_time |-> trade.entry_time,
     entry_price |-> trade.entry_price, sl |-> trade.sl, tp |-> trade.tp,
     exit_price |-> exit.exit_price, exit_time |-> current_candle.time,
     pnl_pips |-> pnl_pips(trade, exit.exit_price), comment |-> exit.comment]

\* the block under "if current_trade:"; st = [trade, ledger, opened, crashed]
exit_step(eng, d, k, st) ==
    IF TradeOpen(st.trade) THEN
        LET exit == check_strategy_exit(eng, d, k, st.trade,
                                        check_sl_tp(st.trade, iloc(d, k)))
        IN  IF Truthy(exit.exit_price)
            THEN [st EXCEPT !.trade = NoTrade,
                            !.ledger = Append(st.ledger,
                                              closed_trade(st.trade, exit, iloc(d, k)))]
            ELSE st
    ELSE st

\* variant: the entry block runs whether or not a position is open
may_enter_always(trade) == TRUE

may_enter(trade) == ~TradeOpen(trade)

\* variant: the entry is stamped with the bar the signal was read from
entry_time_of_signal(d, k) == iloc(d, k - 1).time

entry_time(d, k) == iloc(d, k).time

\* variant: identifiers count from 0
new_trade_id_len(ledger) == Len(ledger)

new_trade_id(ledger) == Len(ledger) + 1

\* how many values the call site unpacks from calculate_sl_tp's result
unpacked(eng) == IF eng = "run_backtest" THEN 2 ELSE 3

\* variant: the levels are used whatever they are
levels_valid_always(levels) == TRUE

\* "if sl_price and tp_price:"
levels_valid(levels) == Truthy(levels[1]) /\ Truthy(levels[2])

\* the parameters of a run: the strategy's threshold and the risk manager's
\* stop distance and ratio
strategy_config ==
    [stop_loss_pips |-> stop_loss_pips, risk_reward_ratio |-> RatioNum,
     adx_threshold |-> adx_threshold]

\* RegimeMomentumStrategy(..., adx_threshold=...)
strategy_of(cfg) == [adx_threshold |-> cfg.adx_threshold]

\* RiskManager(..., stop_loss_pips=..., risk_reward_ratio=..., stops_level=...)
risk_manager_of(cfg) ==
    [stop_loss_pips |-> cfg.stop_loss_pips, risk_reward_ratio |-> cfg.risk_reward_ratio]

\* the block under "if not current_trade:", for the objects built from cfg
entry_step_with(cfg, eng, d, k, st) ==
    IF may_enter(st.trade) THEN
        LET entry_signal == strategy_get_entry_signal(strategy_of(cfg),
                                                      historical_slice(d, k))
            entry_price == iloc(d, k).close
            levels == risk_manager_calculate_sl_tp(risk_manager_of(cfg), entry_signal,
                                                   entry_price, entry_price)
        IN  IF entry_signal \in {"BUY", "SELL"} THEN
                IF Len(levels) # unpacked(eng)
                THEN [st EXCEPT !.crashed = TRUE]    \* ValueError: ... values to unpack
                ELSE IF levels_valid(levels)
                THEN [st EXCEPT !.trade =
                                   [id |-> new_trade_id(st.ledger), type |-> entry_signal,
                                    entry_time |-> entry_time(d, k),
                                    entry_price |-> entry_price,
                                    sl |-> levels[1], tp |-> levels[2]],
                                !.opened = st.opened + 1]
                ELSE st
            ELSE st
    ELSE st

\* the block under "if not current_trade:" of the single backtest
entry_step(eng, d, k, st) == entry_step_with(strategy_config, eng, d, k, st)

\* the parameters of the run in progress: one combination of the grid while
\* the optimizer runs, the configured ones otherwise
params ==
    IF call.fn = "run_dynamic_backtest" /\ call.n >= 1
    THEN call.param_combinations[call.n]
    ELSE strategy_config

State == [trade |-> current_trade, ledger |-> completed_trades, opened |-> opened,
          crashed |-> FALSE]

----------------------------------------------------------------------------
(* The state machine *)

Init ==
    /\ engine \in {"run_backtest", "run_single_backtest"}
    /\ risk_manager_api \in {"four_arg", "five_arg"}
    /\ df \in BarSeries
    /\ pc = "init"
    /\ i = 0
    /\ current_trade = NoTrade
    /\ completed_trades = <<>>
    /\ opened = 0
    /\ call = NoCall
    /\ result = NoResult
    /\ rm = NoRM
    /\ live = NoLive

\* RegimeMomentumStrategy(...) and RiskManager(..., stops_level=...): the
\* four-argument __init__ of src/risk_manager.py raises TypeError on the
\* stops_level keyword, which neither caller catches
Construct ==
    /\ pc = "init"
    /\ IF risk_manager_api = "four_arg"
       THEN pc' = "crashed" /\ i' = i
       ELSE /\ i' = sim_start_index
            /\ pc' = IF sim_start_index < Len(df) THEN "exit" ELSE "report"
    /\ UNCHANGED <<engine, risk_manager_api, df, current_trade, completed_trades, opened>>
    /\ UNCHANGED fn_vars

CheckExits ==
    /\ pc = "exit"
    /\ LET st == exit_step(engine, df, i, State)
       IN  /\ current_trade' = st.trade
           /\ completed_trades' = st.ledger
    /\ pc' = "entry"
    /\ UNCHANGED <<engine, risk_manager_api, df, i, opened>>
    /\ UNCHANGED fn_vars

CheckEntry ==
    /\ pc = "entry"
    /\ LET st == entry_step_with(params, engine, df, i, State)
       IN  /\ current_trade' = st.trade
           /\ opened' = st.opened
           /\ IF st.crashed
              THEN pc' = "crashed" /\ i' = i
              ELSE /\ i' = i + 1
                   /\ pc' = IF i + 1 < Len(df) THEN "exit" ELSE "report"
    /\ UNCHANGED <<engine, risk_manager_api, df, completed_trades>>
    /\ UNCHANGED fn_vars

\* after the loop: the report is computed from completed_trades alone
Report ==
    /\ pc = "report"
    /\ pc' = "done"
    /\ UNCHANGED <<engine, risk_manager_api, df, i, current_trade, completed_trades, opened>>
    /\ UNCHANGED fn_vars

Next == Construct \/ CheckExits \/ CheckEntry \/ Report

Spec == Init /\ [][Next]_vars

----------------------------------------------------------------------------
(* Properties of the simulation loop *)

Ledger == {completed_trades[k] : k \in DOMAIN completed_trades}

\* the bar on which a recorded trade was closed
exit_bar(t) == iloc(df, t.exit_time)

sl_touched(t, c) == IF t.type = "BUY" THEN c.low <= t.sl ELSE c.high >= t.sl
tp_touched(t, c) == IF t.type = "BUY" THEN c.high >= t.tp ELSE c.low <= t.tp

\* the open position has gone through the exit checks of bar i and is still open
SurvivedBar == pc = "entry" /\ TradeOpen(current_trade) /\ current_trade.entry_time < i

FutureRows == {Row(0, c, n) : c \in Candles, n \in Indicators \cup {WarmupIndicators}}

with_future(d, k, r) ==
    [j \in DOMAIN d |-> IF j - 1 <= k THEN d[j] ELSE [r EXCEPT !.time = j - 1]]

agreeing_upto(d, k) == {iloc_upto(d, k + 1)} \cup {with_future(d, k, r) : r \in FutureRows}

crossing(d, l, p, type) ==
    /\ Gt(iloc(d, l).ADX, adx_threshold)
    /\ IF type = "BUY"
       THEN /\ Gt(iloc(d, l).EMA_fast, iloc(d, l).EMA_slow)
            /\ Gt(iloc(d, l).STOCHk, stoch_oversold)
            /\ Le(iloc(d, p).STOCHk, stoch_oversold)
       ELSE /\ Lt(iloc(d, l).EMA_fast, iloc(d, l).EMA_slow)
            /\ Lt(iloc(d, l).STOCHk, stoch_overbought)
            /\ Ge(iloc(d, p).STOCHk, stoch_overbought)

----------------------------------------------------------------------------
(* The strategy's signal functions called on their own: the data, and the   *)
(* position type, are the arguments; a call returns once.                   *)

Pending == [status |-> "pending"]
Returned(v) == [status |-> "returned", value |-> v]

\* indicator values of the two rows a signal reads: undefined, on, and either
\* side of, every level the rules compare with
SignalIndicators ==
    [EMA_fast : {NaN, 1, 2, 3}, EMA_slow : {NaN, 2},
     ADX : {NaN, adx_threshold, adx_threshold + 5},
     STOCHk : {NaN, stoch_oversold, 50, stoch_overbought}]

\* n rows: p at iloc[-3], l at iloc[-2], every other row still warming up
SignalSeries(n, p, l) ==
    [j \in 1 .. n |->
        Row(j - 1, WarmupCandle,
            IF j = n - 1 THEN l ELSE IF j = n - 2 THEN p ELSE WarmupIndicators)]

\* one row short of, and exactly, what the strategy asks for
SignalLengths == {min_bars + 2, min_bars + 3}

\* an empty DataFrame, and None
EmptyData == {<<>>, NoData}

PositionTypes == {"BUY", "SELL", "buy"}

\* the functions called, and the position type handed to get_exit_signal
SignalFunctions ==
    {[fn |-> "get_entry_signal", position_type |-> ""], [fn |-> "bar", position_type |-> ""]}
    \cup {[fn |-> "get_exit_signal", position_type |-> t] : t \in PositionTypes}

SignalCall(f, d) == [fn |-> f.fn, data |-> d, position_type |-> f.position_type]

\* no position, empty ledger: the loop's state before its first entry
FlatState == [trade |-> NoTrade, ledger |-> <<>>, opened |-> 0, crashed |-> FALSE]

InitSignal ==
    /\ engine = "run_single_backtest"
    /\ risk_manager_api = "five_arg"
    /\ df = <<>>
    /\ pc = "call"
    /\ i = 0
    /\ current_trade = NoTrade
    /\ completed_trades = <<>>
    /\ opened = 0
    /\ \E f \in SignalFunctions :
          \/ \E n \in SignalLengths, p \in SignalIndicators, l \in SignalIndicators :
                call = SignalCall(f, SignalSeries(n, p, l))
          \/ \E d \in EmptyData : f.fn # "bar" /\ call = SignalCall(f, d)
    /\ result = Pending
    /\ rm = NoRM
    /\ live = NoLive

EntrySignal ==
    /\ call.fn = "get_entry_signal"
    /\ result = Pending
    /\ result' = Returned(get_entry_signal(call.data))
    /\ UNCHANGED <<call, rm, live>>
    /\ UNCHANGED sim_vars

ExitSignal ==
    /\ call.fn = "get_exit_signal"
    /\ result = Pending
    /\ result' = Returned(get_exit_signal(call.data, call.position_type))
    /\ UNCHANGED <<call, rm, live>>
    /\ UNCHANGED sim_vars

\* one pass of the loop body over the data's final bar, no position open
SimulateBar ==
    /\ call.fn = "bar"
    /\ result = Pending
    /\ LET k == Len(call.data) - 1
       IN  result' = Returned(entry_step(engine, call.data, k,
                                         exit_step(engine, call.data, k, FlatState)))
    /\ UNCHANGED <<call, rm, live>>
    /\ UNCHANGED sim_vars

NextSignal == EntrySignal \/ ExitSignal \/ SimulateBar

SpecSignal == InitSignal /\ [][NextSignal]_vars

(* Properties of the signals *)

Defined(x) == x # NaN

\* the data has the two rows a signal reads
Evaluated(d) == d # NoData /\ Len(d) >= min_bars + 3

\* the rule of a BUY, in the values of the last and the prior evaluated bar
BuySetup(d) ==
    /\ Evaluated(d)
    /\ LET last == iloc(d, -2)
           prev == iloc(d, -3)
       IN  /\ Defined(last.ADX) /\ last.ADX > adx_threshold
           /\ Defined(last.EMA_fast) /\ Defined(last.EMA_slow)
           /\ last.EMA_fast > last.EMA_slow
           /\ Defined(prev.STOCHk) /\ prev.STOCHk <= stoch_oversold
           /\ Defined(last.STOCHk) /\ last.STOCHk > stoch_oversold

\* the rule of a SELL
SellSetup(d) ==
    /\ Evaluated(d)
    /\ LET last == iloc(d, -2)
           prev == iloc(d, -3)
       IN  /\ Defined(last.ADX) /\ last.ADX > adx_threshold
           /\ Defined(last.EMA_fast) /\ Defined(last.EMA_slow)
           /\ last.EMA_fast < last.EMA_slow
           /\ Defined(prev.STOCHk) /\ prev.STOCHk >= stoch_overbought
           /\ Defined(last.STOCHk) /\ last.STOCHk < stoch_overbought

EntryReturned == call.fn = "get_entry_signal" /\ result.status = "returned"
ExitReturned == call.fn = "get_exit_signal" /\ result.status = "returned"
BarReturned == call.fn = "bar" /\ result.status = "returned"

\* C11: get_entry_signal returns BUY exactly when the market trends (ADX above
\* the threshold), the fast EMA is above the slow one and %K has crossed up
\* through the oversold level; SELL exactly when it trends, the fast EMA is
\* below the slow one and %K has crossed down through the overbought level;
\* HOLD in every other case, and nothing else ever.
C11_EntrySignalRule ==
    EntryReturned =>
        /\ result.value \in {"BUY", "SELL", "HOLD"}
        /\ (result.value = "BUY") <=> BuySetup(call.data)
        /\ (result.value = "SELL") <=> SellSetup(call.data)

\* a SELL has been returned on a %K that came down from exactly the overbought level
C11_Witness ==
    /\ EntryReturned
    /\ result.value = "SELL"
    /\ iloc(call.data, -3).STOCHk = stoch_overbought


\* the four indicator values of a row
SomeUndefined(row) ==
    IsNa(row.EMA_fast) \/ IsNa(row.EMA_slow) \/ IsNa(row.ADX) \/ IsNa(row.STOCHk)

C13_TooFewBarsIsHold ==
    (result.status = "returned" /\ ~Evaluated(call.data)) =>
        CASE call.fn = "get_entry_signal" -> result.value = "HOLD"
          [] call.fn = "get_exit_signal" -> result.value = FALSE
          [] call.fn = "bar" -> result.value = FlatState

\* the loop has passed over a bar with one row too few, whose last two rows
\* meet every rule of a BUY
C13_Witness ==
    /\ BarReturned
    /\ Len(call.data) = min_bars + 2
    /\ result.value = FlatState
    /\ LET last == iloc(call.data, -2)
           prev == iloc(call.data, -3)
       IN  /\ last.ADX > adx_threshold
           /\ Defined(last.EMA_slow) /\ last.EMA_fast > last.EMA_slow
           /\ last.STOCHk > stoch_oversold
           /\ Defined(prev.STOCHk) /\ prev.STOCHk <= stoch_oversold


\* the four EMA values get_exit_signal compares
EmasDefined(d) ==
    /\ Defined(iloc(d, -2).EMA_fast) /\ Defined(iloc(d, -2).EMA_slow)
    /\ Defined(iloc(d, -3).EMA_fast) /\ Defined(iloc(d, -3).EMA_slow)

\* the EMA relation has turned against a position of the given direction
Reversal(d, direction) ==
    /\ Evaluated(d)
    /\ EmasDefined(d)
    /\ LET last == iloc(d, -2)
           prev == iloc(d, -3)
       IN  \/ /\ direction = "BUY"
              /\ prev.EMA_fast >= prev.EMA_slow
              /\ last.EMA_fast < last.EMA_slow
           \/ /\ direction = "SELL"
              /\ prev.EMA_fast <= prev.EMA_slow
              /\ last.EMA_fast > last.EMA_slow

\* the same rows with other ADX and %K values in the two rows read
with_oscillators(d, a, k) ==
    [j \in DOMAIN d |->
        IF j >= Len(d) - 2 THEN [d[j] EXCEPT !.ADX = a, !.STOCHk = k] ELSE d[j]]

\* C14: get_exit_signal returns True exactly when the EMA relation has turned
\* against the held direction between the prior and the last evaluated bar
\* (BUY: prior fast >= slow, last fast < slow; SELL: prior fast <= slow, last
\* fast > slow); it returns False when one of the EMA values is undefined; and
\* the ADX and %K values have no part in the result.
C14_ExitSignalRule ==
    ExitReturned =>
        /\ result.value <=> Reversal(call.data, upper(call.position_type))
        /\ (Evaluated(call.data) /\ ~EmasDefined(call.data)) => result.value = FALSE
        /\ Evaluated(call.data) =>
              \A a \in {NaN, adx_threshold + 5}, k \in {NaN, stoch_oversold} :
                  get_exit_signal(with_oscillators(call.data, a, k), call.position_type)
                      = result.value

\* True has been returned for a BUY position whose EMAs were equal on the prior
\* bar, in a market that does not trend
C14_Witness ==
    /\ ExitReturned
    /\ result.value = TRUE
    /\ call.position_type = "BUY"
    /\ iloc(call.data, -3).EMA_fast = iloc(call.data, -3).EMA_slow
    /\ iloc(call.data, -2).ADX = adx_threshold


----------------------------------------------------------------------------
(* RiskManager of src/risk_manager.py: __init__(symbol, stop_loss_pips,      *)
(* risk_reward_ratio, point) and calculate_sl_tp(order_type, entry_price).  *)
(*                                                                         *)
(* point is 10^-k and is carried as k.  Here prices are integers counted   *)
(* in tenths of a point, the finest unit the class ever rounds to (it      *)
(* rounds to one decimal when point is 1.0).  risk_reward_ratio is         *)
(* ratio_num / RatioDen.                                                   *)

RECURSIVE Pow10(_)
Pow10(n) == IF n <= 0 THEN 1 ELSE 10 * Pow10(n - 1)

Digit(n) == <<"0", "1", "2", "3", "4", "5", "6", "7", "8", "9">>[n + 1]

\* str(point) for the float 10^-k, one character per element: Python prints
\* a float below 0.0001 in exponent notation
str_point(k) ==
    IF k = 0 THEN <<"1", ".", "0">>
    ELSE IF k <= 4 THEN <<"0", ".">> \o [j \in 1 .. k - 1 |-> "0"] \o <<"1">>
    ELSE <<"1", "e", "-", Digit(k \div 10), Digit(k % 10)>>

\* s[::-1]
reversed(s) == [j \in 1 .. Len(s) |-> s[Len(s) + 1 - j]]

\* ch in s
contains(s, ch) == \E j \in 1 .. Len(s) : s[j] = ch

\* s.find(ch): the index, from 0, of the first ch, or -1
find(s, ch) ==
    IF contains(s, ch)
    THEN (CHOOSE j \in 1 .. Len(s) : s[j] = ch /\ \A h \in 1 .. j - 1 : s[h] # ch) - 1
    ELSE -1

\* str(point)[::-1].find('.') if '.' in str(point) else 0
price_decimals(k) ==
    IF contains(str_point(k), ".") THEN find(reversed(str_point(k)), ".") ELSE 0

ValueError == [status |-> "ValueError"]

\* variant: a distance of zero is let through
is_nonnegative_int(x) == x.type = "int" /\ x.value >= 0

\* isinstance(stop_loss_pips, int) and stop_loss_pips > 0
is_positive_int(x) == x.type = "int" /\ x.value > 0

\* the object __init__ leaves, or the ValueError it raises
RiskManager(sl_pips, ratio_num, k) ==
    IF ~is_positive_int(sl_pips) THEN ValueError
    ELSE IF ratio_num <= 0 THEN ValueError
    ELSE [status |-> "built", stop_loss_pips |-> sl_pips.value,
          risk_reward_ratio |-> ratio_num, point |-> k,
          price_decimals |-> price_decimals(k)]

\* num/den to the nearest multiple of grid, ties to the even multiple; the
\* products stay below grid * 3
round_to_grid(num, den, grid) ==
    LET n == num \div den
        r == num % den            \* num/den = n + r/den
        q == n \div grid
        h == n % grid             \* num/den = q*grid + h + r/den
        gap == grid - 2 * h
        up == \/ gap < 0
              \/ gap \in {0, 1} /\ 2 * r > gap * den
              \/ gap \in {0, 1} /\ 2 * r = gap * den /\ q % 2 = 1
    IN  IF up THEN (q + 1) * grid ELSE q * grid

\* round(num/den tenths of a point, decimals), point being 10^-k; a grid of
\* 10^10 tenths or more is above twice every price and rounds it to 0
round_price(num, den, k, decimals) ==
    IF k + 1 - decimals >= 10 THEN 0
    ELSE round_to_grid(num, den, Pow10(k + 1 - decimals))

RiskManager_calculate_sl_tp(self, order_type, entry_price) ==
    LET sl_in_price == self.stop_loss_pips * 10
        tp_num == sl_in_price * self.risk_reward_ratio     \* over RatioDen
    IN  IF upper(order_type) = "BUY"
        THEN <<round_price(entry_price - sl_in_price, 1, self.point, self.price_decimals),
               round_price(entry_price * RatioDen + tp_num, RatioDen,
                           self.point, self.price_decimals)>>
        ELSE IF upper(order_type) = "SELL"
        THEN <<round_price(entry_price + sl_in_price, 1, self.point, self.price_decimals),
               round_price(entry_price * RatioDen - tp_num, RatioDen,
                           self.point, self.price_decimals)>>
        ELSE <<None, None>>

(* A RiskManager is built and asked for the levels of up to MaxAttempts     *)
(* entries, each result going through the caller's "if sl_price and         *)
(* tp_price".  The arguments are fixed before the first step.               *)

StopLossInputs ==
    {[type |-> "int", value |-> v] : v \in {-1, 0, 1, stop_loss_pips}}
    \cup {[type |-> "float", value |-> stop_loss_pips]}

RatioInputs == {-1, 0, 1, RatioNum}

OrderTypes == {"BUY", "SELL", "HOLD", "sell"}

\* 1.2 for point 0.00001 (120000 points), and 10 points
EntryPrices == {1200000, 100}

Attempts == [order_type : OrderTypes, entry_price : EntryPrices]

InitRisk ==
    /\ engine = "run_backtest"
    /\ risk_manager_api = "four_arg"
    /\ df = <<>>
    /\ pc = "init"
    /\ i = 0
    /\ current_trade = NoTrade
    /\ completed_trades = <<>>
    /\ opened = 0
    /\ \E s \in StopLossInputs, r \in RatioInputs, k \in 0 .. MaxDecimals,
          a \in [1 .. MaxAttempts -> Attempts] :
          call = [fn |-> "RiskManager", stop_loss_pips |-> s, risk_reward_ratio |-> r,
                  point |-> k, attempts |-> a]
    /\ result = Pending
    /\ rm = NoRM
    /\ live = NoLive

\* RiskManager(symbol, stop_loss_pips, risk_reward_ratio, point)
RiskManagerInit ==
    /\ pc = "init"
    /\ call.fn = "RiskManager"
    /\ rm' = RiskManager(call.stop_loss_pips, call.risk_reward_ratio, call.point)
    /\ live' = live
    /\ pc' = IF rm' = ValueError THEN "crashed" ELSE "call"
    /\ UNCHANGED <<engine, risk_manager_api, df, i, current_trade, completed_trades, opened>>
    /\ UNCHANGED <<call, result>>

\* risk_manager.calculate_sl_tp(order_type, entry_price)
CalculateSlTp ==
    /\ pc = "call"
    /\ LET a == call.attempts[i + 1]
       IN  result' = Returned(RiskManager_calculate_sl_tp(rm, a.order_type, a.entry_price))
    /\ pc' = "levels"
    /\ UNCHANGED <<engine, risk_manager_api, df, i, current_trade, completed_trades, opened>>
    /\ UNCHANGED <<call, rm, live>>

\* sl_price, tp_price = ...; if sl_price and tp_price: current_trade = {...}
PlaceEntry ==
    /\ pc = "levels"
    /\ LET a == call.attempts[i + 1]
           levels == result.value
       IN  IF levels_valid(levels)
           THEN /\ current_trade' =
                       [id |-> new_trade_id(completed_trades), type |-> a.order_type,
                        entry_time |-> i, entry_price |-> a.entry_price,
                        sl |-> levels[1], tp |-> levels[2]]
                /\ opened' = opened + 1
                /\ pc' = "done"
           ELSE /\ UNCHANGED <<current_trade, opened>>
                /\ pc' = IF i + 1 < MaxAttempts THEN "call" ELSE "done"
    /\ i' = i + 1
    /\ result' = Pending
    /\ UNCHANGED <<engine, risk_manager_api, df, completed_trades>>
    /\ UNCHANGED <<call, rm, live>>

NextRisk == RiskManagerInit \/ CalculateSlTp \/ PlaceEntry

SpecRisk == InitRisk /\ [][NextRisk]_vars


(* Properties of the RiskManager *)

\* the entry attempt whose levels have just been returned
Attempt == call.attempts[i + 1]
LevelsReturned == pc = "levels" /\ result.status = "returned"
ValidDirection(order_type) == upper(order_type) \in {"BUY", "SELL"}

\* num/den tenths of a point, to the nearest whole point
to_increment(num, den) == Round(num, den * 10) * 10

\* C15: calculate_sl_tp returns three results, the third being the effective
\* stop distance max(configured stop, spread + broker minimum), the spread
\* being zero when a single entry price is given.
C15_EffectiveStopReturned ==
    (LevelsReturned /\ ValidDirection(Attempt.order_type)) =>
        /\ Len(result.value) = 3
        /\ result.value[3] = Max2(rm.stop_loss_pips, 0 + stops_level)

\* C16: for a BUY the stop is entry - stop*point and the target is
\* entry + stop*ratio*point (to the nearest increment), for a SELL the stop is
\* entry + stop*point and the target entry - stop*ratio*point; the stop and
\* the target lie strictly on opposite sides of the entry price.
C16_LevelsAroundEntry ==
    (LevelsReturned /\ ValidDirection(Attempt.order_type)) =>
        LET entry == Attempt.entry_price
            distance == rm.stop_loss_pips * 10
            target == distance * rm.risk_reward_ratio      \* over RatioDen
            sl == result.value[1]
            tp == result.value[2]
        IN  IF upper(Attempt.order_type) = "BUY"
            THEN /\ sl = entry - distance
                 /\ tp = to_increment(entry * RatioDen + target, RatioDen)
                 /\ sl < entry /\ entry < tp
            ELSE /\ sl = entry + distance
                 /\ tp = to_increment(entry * RatioDen - target, RatioDen)
                 /\ tp < entry /\ entry < sl

\* C17: a stop-loss distance <= 0 or a reward:risk ratio <= 0 makes the
\* constructor raise: no RiskManager object exists afterwards, no default
\* stands in for the rejected value, and no level is ever computed.
C17_InvalidParametersRaise ==
    (/\ pc # "init"
     /\ call.fn = "RiskManager"
     /\ call.stop_loss_pips.value <= 0 \/ call.risk_reward_ratio <= 0)
    => /\ rm = ValueError
       /\ pc = "crashed"
       /\ result = Pending
       /\ current_trade = NoTrade

\* the constructor has raised on a distance of zero given with a valid ratio
C17_Witness ==
    /\ pc = "crashed"
    /\ rm = ValueError
    /\ call.stop_loss_pips = [type |-> "int", value |-> 0]
    /\ call.risk_reward_ratio > 0

C18_Step ==
    /\ (pc = "call" /\ pc' = "levels" /\ ~ValidDirection(Attempt.order_type)) =>
          /\ result' = Returned(<<None, None>>)
          /\ rm' = rm
    /\ (LevelsReturned /\ ~ValidDirection(Attempt.order_type) /\ pc' # pc) =>
          /\ current_trade = NoTrade /\ current_trade' = NoTrade
          /\ completed_trades' = completed_trades
          /\ i' = i + 1
          /\ pc' = IF i + 1 < MaxAttempts THEN "call" ELSE "done"

C19_DecimalsOfIncrement ==
    (call.fn = "RiskManager" /\ rm.status = "built") => rm.price_decimals = call.point


----------------------------------------------------------------------------
(* The report of run_backtest, computed from a ledger given to it.  A       *)
(* metric is the fraction num/den; den = 0 stands for float('inf').         *)

Frac(n, d) == [num |-> n, den |-> d]
Inf == Frac(1, 0)

RECURSIVE SeqSum(_)
SeqSum(q) == IF q = <<>> THEN 0 ELSE q[1] + SeqSum(Tail(q))

Abs(x) == IF x < 0 THEN 0 - x ELSE x

\* variant: a trade that broke even is left out of the losing trades
is_losing_strict(pnl) == pnl < 0

\* results_df['pnl_pips'] <= 0
is_losing(pnl) == pnl <= 0

is_winning(pnl) == pnl > 0

\* variant: a zero denominator gives a profit factor of zero
profit_factor_or_zero(gross_profit, gross_loss) ==
    IF gross_loss > 0 THEN Frac(gross_profit, gross_loss) ELSE Frac(0, 1)

\* gross_profit / gross_loss if gross_loss > 0 else float('inf')
profit_factor(gross_profit, gross_loss) ==
    IF gross_loss > 0 THEN Frac(gross_profit, gross_loss) ELSE Inf

performance(ledger) ==
    LET pnl == [j \in DOMAIN ledger |-> ledger[j].pnl_pips]
        total_trades == Len(pnl)
        winning_trades == SelectSeq(pnl, is_winning)
        losing_trades == SelectSeq(pnl, is_losing)
        gross_profit == SeqSum(winning_trades)
        gross_loss == Abs(SeqSum(losing_trades))
    IN  [total_trades |-> total_trades,
         win_rate |-> IF total_trades > 0
                      THEN Frac(Len(winning_trades) * 100, total_trades) ELSE Frac(0, 1),
         total_pnl_pips |-> SeqSum(pnl),
         avg_win_pips |-> IF Len(winning_trades) > 0
                          THEN Frac(gross_profit, Len(winning_trades)) ELSE Frac(0, 1),
         avg_loss_pips |-> IF Len(losing_trades) > 0
                           THEN Frac(SeqSum(losing_trades), Len(losing_trades))
                           ELSE Frac(0, 1),
         gross_profit |-> gross_profit,
         gross_loss |-> gross_loss,
         profit_factor |-> profit_factor(gross_profit, gross_loss)]

\* what run_single_backtest returns: (profit_factor, total_trades), and (0, 0)
\* when no trade was made
single_backtest_result(ledger) ==
    IF ledger = <<>> THEN [profit_factor |-> Frac(0, 1), total_trades |-> 0]
    ELSE LET pnl == [j \in DOMAIN ledger |-> ledger[j].pnl_pips]
             gross_profit == SeqSum(SelectSeq(pnl, is_winning))
             gross_loss == Abs(SeqSum(SelectSeq(pnl, is_losing)))
         IN  [profit_factor |-> profit_factor(gross_profit, gross_loss),
              total_trades |-> Len(pnl)]

\* f"{x:.2f}", in hundredths
format2(x) == Round(x.num * 100, x.den)

\* "if not completed_trades: ... return": no report is made
NoReport == [total_trades |-> 0]

PnlValues == {-5, 0, 10, 15}

InitReport ==
    /\ engine \in {"run_backtest", "run_single_backtest"}
    /\ risk_manager_api = "five_arg"
    /\ df = <<>>
    /\ pc = "report"
    /\ i = 0
    /\ current_trade = NoTrade
    /\ \E n \in 0 .. MaxTrades : \E f \in [1 .. n -> PnlValues] :
          completed_trades = [j \in 1 .. n |-> [id |-> j, pnl_pips |-> f[j]]]
    /\ opened = Len(completed_trades)
    /\ call = [fn |-> "report"]
    /\ result = Pending
    /\ rm = NoRM
    /\ live = NoLive

GenerateReport ==
    /\ pc = "report"
    /\ call.fn = "report"
    /\ result' = Returned(IF engine = "run_single_backtest"
                          THEN single_backtest_result(completed_trades)
                          ELSE IF completed_trades = <<>> THEN NoReport
                          ELSE performance(completed_trades))
    /\ pc' = "done"
    /\ UNCHANGED <<engine, risk_manager_api, df, i, current_trade, completed_trades, opened>>
    /\ UNCHANGED <<call, rm, live>>

NextReport == GenerateReport

SpecReport == InitReport /\ [][NextReport]_vars

(* Properties of the report *)

Reported ==
    call.fn = "report" /\ pc = "done" /\ engine = "run_backtest" /\ completed_trades # <<>>

Winners == {j \in DOMAIN completed_trades : completed_trades[j].pnl_pips > 0}
Losers == {j \in DOMAIN completed_trades : completed_trades[j].pnl_pips <= 0}

RECURSIVE PnlOf(_)
PnlOf(J) ==
    IF J = {} THEN 0
    ELSE LET j == CHOOSE j \in J : TRUE
         IN  completed_trades[j].pnl_pips + PnlOf(J \ {j})

\* the fraction x equals n/d
Equals(x, n, d) == x.den # 0 /\ x.num * d = n * x.den

\* C20: the summary is computed from the ledger alone: win rate =
\* count(pnl > 0) / total * 100, gross profit = sum of the pnl > 0, gross loss =
\* |sum of the pnl <= 0| (pnl = 0 is a losing trade), average win and average
\* loss = mean pnl of each partition, 0 for an empty partition; the ledger
\* [+10, -5, +15] is reported as win rate 66.67, profit factor 5.00, average
\* win 12.50 and average loss -5.00.
C20_ReportFromLedger ==
    Reported =>
        LET r == result.value
            total == Len(completed_trades)
        IN  /\ Equals(r.win_rate, Cardinality(Winners) * 100, total)
            /\ r.gross_profit = PnlOf(Winners)
            /\ r.gross_loss = Abs(PnlOf(Losers))
            /\ IF Winners = {} THEN Equals(r.avg_win_pips, 0, 1)
               ELSE Equals(r.avg_win_pips, PnlOf(Winners), Cardinality(Winners))
            /\ IF Losers = {} THEN Equals(r.avg_loss_pips, 0, 1)
               ELSE Equals(r.avg_loss_pips, PnlOf(Losers), Cardinality(Losers))
            /\ [j \in DOMAIN completed_trades |-> completed_trades[j].pnl_pips]
                   = <<10, -5, 15>>
               => /\ format2(r.win_rate) = 6667
                  /\ format2(r.profit_factor) = 500
                  /\ format2(r.avg_win_pips) = 1250
                  /\ format2(r.avg_loss_pips) = -500

\* the report has been made of a ledger whose losing trades are one loss and one
\* trade that broke even, and that holds no winning trade
C20_Witness ==
    /\ Reported
    /\ Winners = {}
    /\ \E j \in Losers : completed_trades[j].pnl_pips = 0
    /\ \E j \in Losers : completed_trades[j].pnl_pips < 0
    /\ Equals(result.value.avg_win_pips, 0, 1)


ResultsReturned == call.fn = "report" /\ pc = "done"

\* the absolute sum of the non-positive pnl values is zero
ZeroDenominator == Abs(PnlOf(Losers)) = 0

\* C21 (as stated): whenever the denominator of the profit factor is zero --
\* the empty ledger included -- run_backtest and run_single_backtest report an
\* infinite profit factor.
C21_ZeroDenominatorIsInfinite ==
    (ResultsReturned /\ ZeroDenominator) =>
        /\ ~(engine = "run_backtest" /\ completed_trades = <<>>)
        /\ result.value.profit_factor = Inf

\* C21 (amended): on a ledger that holds at least one trade a zero
\* denominator gives an infinite profit factor in both functions; on the empty
\* ledger run_single_backtest returns profit factor 0 with 0 trades and
\* run_backtest returns before any report is made.
C21_InfiniteUnlessEmpty ==
    ResultsReturned =>
        /\ (completed_trades # <<>> /\ ZeroDenominator)
              => result.value.profit_factor = Inf
        /\ (completed_trades # <<>> /\ ~ZeroDenominator)
              => Equals(result.value.profit_factor, PnlOf(Winners), Abs(PnlOf(Losers)))
        /\ (completed_trades = <<>> /\ engine = "run_single_backtest")
              => result.value = [profit_factor |-> Frac(0, 1), total_trades |-> 0]
        /\ (completed_trades = <<>> /\ engine = "run_backtest")
              => result.value = NoReport

\* run_single_backtest has returned an infinite profit factor for a ledger of
\* two winning trades
C21_Witness ==
    /\ ResultsReturned
    /\ engine = "run_single_backtest"
    /\ Cardinality(Winners) = 2
    /\ Losers = {}
    /\ result.value.profit_factor = Inf

----------------------------------------------------------------------------
(* run_dynamic_backtest: one simulation per combination of the parameter    *)
(* grid, over one bar series fetched once.                                  *)
(* call = [fn, param_combinations, n]: n combinations have been started;    *)
(* result = [all_results, report].                                          *)

\* the candidate values of each parameter, in the order they are listed; the
\* ratios are numerators over RatioDen
OPTIMIZATION_PARAMS ==
    [stop_loss_pips |-> <<1, 2, 3>>,
     risk_reward_ratio |-> <<2, 3, 4>>,
     adx_threshold |-> <<22, 25, 28>>]

\* variant: the candidate lists are walked in step, one combination per position
param_combinations_zip(grid) ==
    [j \in 1 .. Len(grid.stop_loss_pips) |->
        [stop_loss_pips |-> grid.stop_loss_pips[j],
         risk_reward_ratio |-> grid.risk_reward_ratio[j],
         adx_threshold |-> grid.adx_threshold[j]]]

\* [dict(zip(keys, v)) for v in itertools.product(*values)]: every choice of
\* one value per parameter, the last parameter varying fastest
param_combinations(grid) ==
    LET a == grid.stop_loss_pips
        b == grid.risk_reward_ratio
        c == grid.adx_threshold
    IN  [j \in 1 .. Len(a) * Len(b) * Len(c) |->
            [stop_loss_pips |-> a[((j - 1) \div (Len(b) * Len(c))) + 1],
             risk_reward_ratio |-> b[(((j - 1) \div Len(c)) % Len(b)) + 1],
             adx_threshold |-> c[((j - 1) % Len(c)) + 1]]]

\* round(profit_factor, 2)
round2(x) == IF x.den = 0 THEN x ELSE Frac(Round(x.num * 100, x.den), 100)

\* result = params.copy(); result['profit_factor'] = ...; result['total_trades'] = ...
result_record(cfg, outcome) ==
    [stop_loss_pips |-> cfg.stop_loss_pips,
     risk_reward_ratio |-> cfg.risk_reward_ratio,
     adx_threshold |-> cfg.adx_threshold,
     profit_factor |-> round2(outcome.profit_factor),
     total_trades |-> outcome.total_trades]

\* x > y on profit factors, one or both of which may be infinite
greater(x, y) ==
    IF x.den = 0 THEN y.den # 0
    ELSE IF y.den = 0 THEN FALSE
    ELSE x.num * y.den > y.num * x.den

\* variant: ascending order
ranks_above_ascending(x, y) == greater(y, x)

\* sort_values(by='profit_factor', ascending=False)
ranks_above(x, y) == greater(x, y)

RECURSIVE insert_sorted(_, _)
insert_sorted(r, q) ==
    IF q = <<>> THEN <<r>>
    ELSE IF ranks_above(q[1].profit_factor, r.profit_factor)
    THEN <<q[1]>> \o insert_sorted(r, Tail(q))
    ELSE <<r>> \o q

RECURSIVE sort_values(_)
sort_values(q) == IF q = <<>> THEN <<>> ELSE insert_sorted(q[1], sort_values(Tail(q)))

\* results_df['profit_factor'] > 1.2
is_profitable(r) == greater(r.profit_factor, Frac(12, 10))

\* results_df.head(5)
TopN == 5

head(q, n) == SubSeq(q, 1, IF Len(q) < n THEN Len(q) ELSE n)

NoOptimization == [results_df |-> <<>>]

\* the part of run_dynamic_backtest after the loop
optimization_report(all_results) ==
    IF all_results = <<>> THEN NoOptimization
    ELSE LET results_df == sort_values(all_results)
             profitable_results == SelectSeq(results_df, is_profitable)
         IN  [results_df |-> results_df,
              shown |-> IF profitable_results = <<>> THEN head(results_df, TopN)
                        ELSE profitable_results,
              best_params |-> results_df[1]]

\* (low, high, close) of the bars the optimizer's runs trade on
OptimizerCandles ==
    { [low |-> 10, high |-> 13, close |-> 12],
      [low |-> 8,  high |-> 12, close |-> 10],
      [low |-> 7,  high |-> 10, close |-> 8] }

\* indicator values of bar j of a series whose oscillator swings between
\* oversold and overbought from bar to bar, in a trend of strength adx that
\* is up, down, or turning with the oscillator
OptimizerIndicators(trend, adx, first, j) ==
    LET k == IF j % 2 = 0 THEN first ELSE 100 - first
    IN  [EMA_fast |-> IF trend = "up" THEN 3
                      ELSE IF trend = "down" THEN 1
                      ELSE IF k > 50 THEN 3 ELSE 1,
         EMA_slow |-> 2, ADX |-> adx, STOCHk |-> k]

OptimizerSeries ==
    { [j \in 1 .. MaxBars |->
          Row(j - 1,
              IF (j - 1) \in CandleRows THEN c[j - 1] ELSE WarmupCandle,
              IF (j - 1) \in IndicatorRows
              THEN OptimizerIndicators(trend, adx, first, j) ELSE WarmupIndicators)] :
      c \in [CandleRows -> OptimizerCandles],
      trend \in {"up", "down", "swing"}, adx \in {24, 27, 30}, first \in {10, 90} }

\* variant: the ledger of the previous run is carried into the next
kept_completed_trades == completed_trades

\* "completed_trades = []" at the start of every run
new_completed_trades == <<>>

\* the loop of run_single_backtest from bar k on, as one function of its
\* arguments
RECURSIVE simulate_from(_, _, _, _)
simulate_from(cfg, d, k, st) ==
    IF k >= Len(d) \/ st.crashed THEN st
    ELSE simulate_from(cfg, d, k + 1,
                       entry_step_with(cfg, "run_single_backtest", d, k,
                                       exit_step("run_single_backtest", d, k, st)))

\* run_single_backtest(df, symbol_info, params)
run_single_backtest(d, cfg) ==
    single_backtest_result(simulate_from(cfg, d, sim_start_index, FlatState).ledger)

InitOptimizer ==
    /\ engine = "run_single_backtest"
    /\ risk_manager_api \in {"four_arg", "five_arg"}
    /\ df \in OptimizerSeries
    /\ pc = "optimize"
    /\ i = 0
    /\ current_trade = NoTrade
    /\ completed_trades = <<>>
    /\ opened = 0
    /\ call = [fn |-> "run_dynamic_backtest",
               param_combinations |-> param_combinations(OPTIMIZATION_PARAMS),
               n |-> 0]
    /\ result = [all_results |-> <<>>, report |-> NoOptimization]
    /\ rm = NoRM
    /\ live = NoLive

\* "for i, params in enumerate(param_combinations)": the call of
\* run_single_backtest up to its loop.  The four-argument __init__ of
\* src/risk_manager.py raises TypeError on the stops_level keyword.
StartSingleBacktest ==
    /\ pc = "optimize"
    /\ call.n < Len(call.param_combinations)
    /\ call' = [call EXCEPT !.n = call.n + 1]
    /\ IF risk_manager_api = "four_arg"
       THEN /\ pc' = "crashed"
            /\ UNCHANGED <<i, current_trade, completed_trades, opened>>
       ELSE /\ current_trade' = NoTrade
            /\ completed_trades' = new_completed_trades
            /\ opened' = 0
            /\ i' = sim_start_index
            /\ pc' = IF sim_start_index < Len(df) THEN "exit" ELSE "report"
    /\ UNCHANGED <<engine, risk_manager_api, df, result, rm, live>>

\* the return of run_single_backtest and the record appended for it
FinishSingleBacktest ==
    /\ pc = "report"
    /\ call.fn = "run_dynamic_backtest"
    /\ result' = [result EXCEPT !.all_results =
                      Append(@, result_record(params,
                                              single_backtest_result(completed_trades)))]
    /\ pc' = "optimize"
    /\ UNCHANGED <<engine, risk_manager_api, df, i, current_trade, completed_trades,
                   opened, call, rm, live>>

\* after the loop: sort, select, pick the best
OptimizationReport ==
    /\ pc = "optimize"
    /\ call.n = Len(call.param_combinations)
    /\ result' = [result EXCEPT !.report = optimization_report(result.all_results)]
    /\ pc' = "done"
    /\ UNCHANGED <<engine, risk_manager_api, df, i, current_trade, completed_trades,
                   opened, call, rm, live>>

NextOptimizer ==
    \/ StartSingleBacktest
    \/ CheckExits
    \/ CheckEntry
    \/ FinishSingleBacktest
    \/ OptimizationReport

SpecOptimizer == InitOptimizer /\ [][NextOptimizer]_vars

Optimized == call.fn = "run_dynamic_backtest" /\ pc = "done"

\* the parameter tuple of a result record
parameters(r) ==
    [stop_loss_pips |-> r.stop_loss_pips, risk_reward_ratio |-> r.risk_reward_ratio,
     adx_threshold |-> r.adx_threshold]

Range(q) == { q[j] : j \in DOMAIN q }

\* every choice of one candidate value per parameter
Grid ==
    [stop_loss_pips : Range(OPTIMIZATION_PARAMS.stop_loss_pips),
     risk_reward_ratio : Range(OPTIMIZATION_PARAMS.risk_reward_ratio),
     adx_threshold : Range(OPTIMIZATION_PARAMS.adx_threshold)]

SortedDescending(q) ==
    \A j, k \in DOMAIN q : j < k => ~greater(q[k].profit_factor, q[j].profit_factor)

\* the records of q with the number of times each occurs
BagOf(q) == [r \in Range(q) |-> Cardinality({ j \in DOMAIN q : q[j] = r })]

Profitable(q) == { j \in DOMAIN q : greater(q[j].profit_factor, Frac(12, 10)) }

C23_TopNShown ==
    /\ Optimized
    /\ Profitable(result.report.results_df) = {}
    /\ Len(result.report.shown) = TopN
    /\ \E j, k \in DOMAIN result.all_results :
          j < k /\ greater(result.all_results[k].profit_factor,
                           result.all_results[j].profit_factor)

\* C24: the bar series is the same before and after every step of the
\* optimizer, a run starts with no open position and an empty ledger, and the
\* record appended for a combination is the one a call of run_single_backtest
\* on the series with that combination's parameters gives by itself.
C24_Step ==
    /\ df' = df
    /\ call'.param_combinations = call.param_combinations
    /\ call'.n # call.n =>
          /\ current_trade' = NoTrade
          /\ completed_trades' = <<>>
          /\ params' = call.param_combinations[call'.n]
    /\ result'.all_results # result.all_results =>
          /\ Len(result'.all_results) = call.n
          /\ result'.all_results =
                Append(result.all_results,
                       result_record(call.param_combinations[call.n],
                                     run_single_backtest(df,
                                         call.param_combinations[call.n])))

----------------------------------------------------------------------------
(* The ledger of the simulation loop (specification Spec) *)

stop_distance(t) == calculate_sl_tp(t.type, t.entry_price, t.entry_price)[3]

\* the bar went through the level: the stop or target lies strictly inside it
gapped(t) ==
    IF t.comment = "SL Hit"
    THEN (IF t.type = "BUY" THEN exit_bar(t).low < t.sl ELSE exit_bar(t).high > t.sl)
    ELSE (IF t.type = "BUY" THEN exit_bar(t).high > t.tp ELSE exit_bar(t).low < t.tp)

\* C28: a step that leaves a position open leaves its entry price, stop and
\* target as they were; every trade recorded with 'SL Hit' lost exactly the
\* stop distance and every trade recorded with 'TP Hit' won the stop distance
\* times the ratio, to within half a point of rounding, whatever the bar's
\* low and high were.
C28_Step ==
    /\ (TradeOpen(current_trade) /\ TradeOpen(current_trade')) =>
          /\ current_trade'.entry_price = current_trade.entry_price
          /\ current_trade'.sl = current_trade.sl
          /\ current_trade'.tp = current_trade.tp
    /\ \A j \in DOMAIN completed_trades' :
          LET t == completed_trades'[j]
          IN  /\ t.comment = "SL Hit" => t.pnl_pips = 0 - stop_distance(t)
              /\ t.comment = "TP Hit" =>
                    /\ t.pnl_pips > 0
                    /\ 2 * Abs(t.pnl_pips * RatioDen - stop_distance(t) * RatioNum)
                          <= RatioDen

exit_kind(comment) ==
    IF comment \in {"Strategy Exit", "Strategy Exit (EMA Cross)"} THEN "Strategy Exit"
    ELSE comment

outcome_of(st) ==
    [trade |-> st.trade, crashed |-> st.crashed,
     ledger |-> [j \in DOMAIN st.ledger |->
                    [st.ledger[j] EXCEPT !.comment = exit_kind(@)]]]

----------------------------------------------------------------------------
(* main.run: the live program.                                              *)
(* call holds what the program reads once (config.ini, the broker's symbol  *)
(* metadata); live = [connected, disconnected, strategies, risk_managers,   *)
(* queue, positions, last]; i counts the trading cycles.  Sizes are in      *)
(* volume steps, money in account units.                                    *)

symbols_to_trade == <<"EURUSD", "GBPUSD">>

MaxCycles == 2

\* symbol_config.get('risk_per_trade_percent', 1.0)
risk_per_trade_percent == 1

\* the smallest size the venue trades, in volume steps
volume_min == 1

\* a symbol's section of config.ini: complete, without the risk manager's
\* keys, or with text where the strategy expects a number
ConfigStates == {"ok", "missing_key", "bad_value"}

NoTick == [ask |-> None, bid |-> None]

\* a quote with a spread, and one so low that a BUY's stop lands on 0.0
Ticks ==
    { [ask |-> 11, bid |-> 10],
      [ask |-> Max2(stop_loss_pips, stops_level), bid |-> Max2(stop_loss_pips, stops_level)] }

\* account_info.balance; None when account_info is unavailable
Balances == {None, 1, 10}

\* the size that risks risk_percent of the balance over the stop distance,
\* floored to the volume step, before the minimum is applied
raw_volume(account_balance, risk_percent, sl_pips) ==
    (account_balance * risk_percent) \div sl_pips

\* RiskManager.calculate_volume(account_balance, risk_percent, stop_loss_pips)
calculate_volume(account_balance, risk_percent, sl_pips) ==
    IF sl_pips <= 0 \/ account_balance <= 0 THEN None
    ELSE IF raw_volume(account_balance, risk_percent, sl_pips) < volume_min THEN None
    ELSE raw_volume(account_balance, risk_percent, sl_pips)

\* variant: the order is sent whatever the size is
volume_valid_always(volume) == TRUE

\* "if volume:"
volume_valid(volume) == Truthy(volume)

\* what one pass of the loop body did for a symbol; nothing read yet
Skipped(s) ==
    [symbol |-> s, error |-> "", historical_data |-> FALSE, open_position |-> FALSE,
     entry_signal |-> "", tick |-> NoTick, levels |-> <<None, None, None>>,
     account_balance |-> None, volume |-> None, placed |-> FALSE, closed |-> FALSE]

NoCycle == Skipped("")

\* the body of "for symbol in strategies.keys()" for symbol s; in = what the
\* broker and the strategy answer in this pass
process_symbol(s, risk_managers, in) ==
    IF s \notin risk_managers
    THEN [Skipped(s) EXCEPT !.error = "KeyError"]      \* risk_managers[symbol]
    ELSE IF ~in.historical_data THEN Skipped(s)
    ELSE
      LET seen == [Skipped(s) EXCEPT !.historical_data = TRUE,
                                     !.open_position = in.open_position]
      IN  IF in.open_position
          THEN [seen EXCEPT !.closed = in.exit_signal]
          ELSE
            LET asked == [seen EXCEPT !.entry_signal = in.entry_signal]
            IN  IF in.entry_signal \notin {"BUY", "SELL"} THEN asked
                ELSE IF in.tick = NoTick THEN asked
                ELSE
                  LET levels == risk_manager_calculate_sl_tp(
                                    risk_manager_of(strategy_config), in.entry_signal,
                                    in.tick.ask, in.tick.bid)
                      priced == [asked EXCEPT !.tick = in.tick, !.levels = levels]
                  IN  IF ~(Truthy(levels[1]) /\ Truthy(levels[2]) /\ Truthy(levels[3]))
                      THEN priced
                      ELSE IF in.account_balance = None THEN priced
                      ELSE
                        LET volume == calculate_volume(in.account_balance,
                                                       risk_per_trade_percent, levels[3])
                            sized == [priced EXCEPT
                                         !.account_balance = in.account_balance,
                                         !.volume = volume]
                        IN  IF volume_valid(volume)
                            THEN [sized EXCEPT !.placed = TRUE]
                            ELSE sized

InitLive ==
    /\ engine = "main"
    /\ risk_manager_api \in {"four_arg", "five_arg"}
    /\ df = <<>>
    /\ pc = "config"
    /\ i = 0
    /\ current_trade = NoTrade
    /\ completed_trades = <<>>
    /\ opened = 0
    /\ \E sections \in BOOLEAN, trading_parameters \in ConfigStates,
          main_loop_sleep_seconds \in {"ok", "missing_key"} :
          \E symbol_config \in [Range(symbols_to_trade) -> ConfigStates],
             symbol_info \in [Range(symbols_to_trade) -> BOOLEAN] :
             call = [fn |-> "main.run", sections |-> sections,
                     trading_parameters |-> trading_parameters,
                     main_loop_sleep_seconds |-> main_loop_sleep_seconds,
                     symbol_config |-> symbol_config, symbol_info |-> symbol_info]
    /\ result = NoResult
    /\ rm = NoRM
    /\ live = [connected |-> FALSE, disconnected |-> FALSE, strategies |-> <<>>,
               risk_managers |-> {}, queue |-> <<>>, positions |-> {},
               last |-> NoCycle]

live_frame ==
    UNCHANGED <<engine, risk_manager_api, df, current_trade, completed_trades, opened,
                call, result, rm>>

\* 1. config['mt5_credentials'], config['trading_parameters']
LoadConfiguration ==
    /\ pc = "config"
    /\ pc' = IF call.sections THEN "connect" ELSE "terminated"
    /\ UNCHANGED <<i, live>>
    /\ live_frame

\* 2. connector.connect()
Connect ==
    /\ pc = "connect"
    /\ \E connected \in BOOLEAN :
          /\ live' = [live EXCEPT !.connected = connected]
          /\ pc' = IF connected THEN "parameters" ELSE "terminated"
    /\ UNCHANGED i
    /\ live_frame

\* trade_params['symbols'], int(trade_params['magic_number']): a missing key
\* is caught and disconnects; a ValueError of int() is not caught
ReadTradingParameters ==
    /\ pc = "parameters"
    /\ IF call.trading_parameters = "ok"
       THEN /\ live' = [live EXCEPT !.queue = symbols_to_trade]
            /\ pc' = "initialize"
       ELSE /\ live' = [live EXCEPT
                           !.disconnected = (call.trading_parameters = "missing_key")]
            /\ pc' = "terminated"
    /\ UNCHANGED i
    /\ live_frame

\* 3. one pass of "for symbol in symbols_to_trade": the strategy is stored
\* first, then symbol_info is asked for, then the risk manager is built
InitializeSymbol ==
    /\ pc = "initialize"
    /\ live.queue # <<>>
    /\ LET symbol == live.queue[1]
           rest == Tail(live.queue)
           next_pc == IF rest = <<>> THEN "cycle" ELSE "initialize"
       IN  IF call.symbol_config[symbol] = "bad_value"
           THEN \* ValueError of int(): only KeyError is caught here
                /\ live' = [live EXCEPT !.queue = rest]
                /\ pc' = "terminated"
           ELSE IF ~call.symbol_info[symbol]
           THEN \* "It will be skipped": continue, the strategy stays stored
                /\ live' = [live EXCEPT !.queue = rest,
                                        !.strategies = Append(@, symbol)]
                /\ pc' = next_pc
           ELSE IF call.symbol_config[symbol] = "missing_key"
           THEN \* KeyError: both entries are deleted
                /\ live' = [live EXCEPT !.queue = rest]
                /\ pc' = next_pc
           ELSE IF risk_manager_api = "four_arg"
           THEN \* TypeError on the stops_level keyword: not caught
                /\ live' = [live EXCEPT !.queue = rest,
                                        !.strategies = Append(@, symbol)]
                /\ pc' = "terminated"
           ELSE /\ live' = [live EXCEPT !.queue = rest,
                                        !.strategies = Append(@, symbol),
                                        !.risk_managers = @ \cup {symbol}]
                /\ pc' = next_pc
    /\ UNCHANGED i
    /\ live_frame

\* 4. "while True:" and the head of "for symbol in strategies.keys()";
\* positions may have been closed at the broker since the last cycle
StartCycle ==
    /\ pc = "cycle"
    /\ i < MaxCycles
    /\ \E open \in SUBSET live.positions :
          live' = [live EXCEPT !.queue = live.strategies, !.positions = open]
    /\ pc' = "process"
    /\ UNCHANGED i
    /\ live_frame

\* the loop body for the next symbol, exceptions caught by "except Exception"
ProcessSymbol ==
    /\ pc = "process"
    /\ live.queue # <<>>
    /\ LET symbol == live.queue[1]
       IN  \E historical_data \in BOOLEAN, exit_signal \in BOOLEAN,
              entry_signal \in {"BUY", "SELL", "HOLD"}, tick \in Ticks \cup {NoTick},
              account_balance \in Balances, done \in BOOLEAN :
              LET pass == process_symbol(symbol, live.risk_managers,
                              [historical_data |-> historical_data,
                               open_position |-> symbol \in live.positions,
                               exit_signal |-> exit_signal,
                               entry_signal |-> entry_signal, tick |-> tick,
                               account_balance |-> account_balance])
              IN  live' = [live EXCEPT
                              !.queue = Tail(@),
                              !.last = pass,
                              !.positions =
                                  IF pass.placed /\ done THEN @ \cup {symbol}
                                  ELSE IF pass.closed /\ done THEN @ \ {symbol}
                                  ELSE @]
    /\ UNCHANGED <<pc, i>>
    /\ live_frame

\* int(trade_params['main_loop_sleep_seconds']) and time.sleep; a missing key
\* is a critical error: "except Exception", then "finally: disconnect"
EndCycle ==
    /\ pc = "process"
    /\ live.queue = <<>>
    /\ IF call.main_loop_sleep_seconds = "ok"
       THEN /\ i' = i + 1
            /\ pc' = "cycle"
            /\ live' = live
       ELSE /\ i' = i
            /\ pc' = "terminated"
            /\ live' = [live EXCEPT !.disconnected = TRUE]
    /\ live_frame

\* KeyboardInterrupt in the loop, then "finally: disconnect"
Interrupt ==
    /\ pc \in {"cycle", "process"}
    /\ pc' = "terminated"
    /\ live' = [live EXCEPT !.disconnected = TRUE]
    /\ UNCHANGED i
    /\ live_frame

NextLive ==
    \/ LoadConfiguration
    \/ Connect
    \/ ReadTradingParameters
    \/ InitializeSymbol
    \/ StartCycle
    \/ ProcessSymbol
    \/ EndCycle
    \/ Interrupt

SpecLive == InitLive /\ [][NextLive]_vars

Processed == engine = "main" /\ live.last # NoCycle

C25_BelowMinimum ==
    /\ Processed
    /\ live.last.account_balance = 1
    /\ live.last.volume = None
    /\ ~live.last.placed

Equipped(s) ==
    /\ s \in live.risk_managers
    /\ call.symbol_info[s]
    /\ call.symbol_config[s] = "ok"

\* C26: once the trading loop runs, every symbol it iterates over, and the
\* symbol of every pass made, has a strategy and a risk manager, metadata and
\* a complete configuration.
C26_TradedSymbolsEquipped ==
    (engine = "main" /\ pc \in {"cycle", "process"}) =>
        /\ \A s \in Range(live.strategies) : Equipped(s)
        /\ live.last # NoCycle => Equipped(live.last.symbol)

\* C30: whenever run() has ended after the connection was made, the
\* connector has been disconnected.
C30_DisconnectedAtExit ==
    (engine = "main" /\ pc = "terminated" /\ live.connected) => live.disconnected

====
